---- MODULE Spec2Model ----
(***************************************************************************)
(* Model of the promptlayer client library:                                *)
(*   - promptlayer/track/track.py      (prompt, metadata, score)           *)
(*   - promptlayer/prompts/prompts.py  (publish_prompt)                    *)
(*   - promptlayer/langchain/llms/promptlayer_openai.py       (completion) *)
(*   - promptlayer/langchain/chat_models/promptlayer_openai.py (chat)      *)
(* The remote helpers of promptlayer/utils.py (promptlayer_api_request,    *)
(* promptlayer_track_*, promptlayer_publish_prompt) are the environment:   *)
(* their outcome is a nondeterministic choice.                             *)
(***************************************************************************)
EXTENDS Integers, Sequences, FiniteSets, TLC

(* ------------------------------ bounds -------------------------------- *)
\* score inputs range over (ScoreMin - ScoreSpan) .. (ScoreMax + ScoreSpan)
ScoreSpan == 3
\* largest number of key/value pairs of a metadata mapping
MaxItems == 2
\* largest number of prompts (completion) or messages (chat) of one call
MaxPrompts == 2
\* largest number of generations per prompt (the OpenAI parameter n)
MaxN == 2
\* largest number of clock ticks that elapse during one underlying call
MaxElapsed == 1

(* ------------------------- program constants -------------------------- *)
ScoreMin == 0
ScoreMax == 100

(* ----------------------------- variables ------------------------------ *)
VARIABLES
    tcall,      \* the last tracking/template invocation: [op, args]
    tremote,    \* the remote calls that invocation made, in order
    tout,       \* how it ended: [kind, value]
    adapter,    \* which adapter class the instance is: "llm" or "chat"
    inputs,     \* prompts (completion) or messages (chat) of the call
    stop,       \* the stop argument
    pl_tags,    \* instance field pl_tags
    pl_project, \* instance field pl_project
    return_pl_id, \* instance field return_pl_id
    n,          \* instance field n: completions generated per prompt
    api,        \* what super()._generate / _agenerate does for these inputs
    now,        \* the clock datetime.datetime.now().timestamp() reads
    pc,         \* per call path: position of the call
    startTime,  \* per call path: request_start_time
    endTime,    \* per call path: request_end_time
    result,     \* per call path: generated_responses (mutated in place)
    produced,   \* per call path: generated_responses as super() returned it
    idx,        \* per call path: loop index i
    events,     \* per call path: the CallEvents handed to the Reporter
    ids,        \* per call path: what the Reporter returned for each event
    exc         \* per call path: exception raised to the caller, or "none"

trackVars == <<tcall, tremote, tout>>
configVars == <<adapter, inputs, stop, pl_tags, pl_project, return_pl_id, n, api>>
callVars == <<now, pc, startTime, endTime, result, produced, idx, events, ids, exc>>
vars == <<tcall, tremote, tout, adapter, inputs, stop, pl_tags, pl_project,
          return_pl_id, n, api, now, pc, startTime, endTime, result, produced,
          idx, events, ids, exc>>

(* ------------------------- python value model ------------------------- *)
None == [t |-> "NoneType", v |-> "None"]

\* isinstance(x, int): bool is a subclass of int
IsInstanceInt(x) == x.t \in {"int", "bool"}
\* isinstance(x, str)
IsInstanceStr(x) == x.t = "str"
\* isinstance(x, dict): subclasses of dict included
IsInstanceDict(x) == x.t \in {"dict", "OrderedDict"}
\* type(x) == dict: subclasses of dict excluded
TypeIsDict(x) == x.t = "dict"
\* isinstance(x, PromptTemplate)
IsInstancePromptTemplate(x) == x.t = "PromptTemplate"

RequestIds == {"r1", "r2"}

(* ------------- remote helpers of promptlayer.utils (environment) ------ *)
Acks == {"ack1", "ack2"}
RemoteOutcomes == {[kind |-> "ok", ack |-> a] : a \in Acks}
                  \cup {[kind |-> "error", ack |-> "RemoteError"]}

\* the invocation's end when the remote helper was called and its value is returned
AfterRemote(o) ==
    IF o.kind = "ok" THEN [kind |-> "returned", value |-> o.ack]
    ELSE [kind |-> "raised", value |-> o.ack]

(* ------------------------------ track.score --------------------------- *)
ScoreInputs ==
    [t : {"int"}, v : (ScoreMin - ScoreSpan)..(ScoreMax + ScoreSpan)]
    \cup [t : {"bool"}, v : {0, 1}]
    \cup [t : {"float", "str", "NoneType"}, v : {50}]

ScoreOutOfRangeExclusive(s) == s.v <= ScoreMin \/ s.v > ScoreMax

ScoreOutOfRange(s) == s.v < ScoreMin \/ s.v > ScoreMax

score(request_id, s, o) ==
    /\ tcall.op = "none"
    /\ tcall' = [op |-> "score", args |-> <<request_id, s>>]
    /\ IF ~IsInstanceInt(s)
       THEN /\ tremote' = <<>>
            /\ tout' = [kind |-> "raised", value |-> "Please provide a int score."]
       ELSE IF ScoreOutOfRange(s)
       THEN /\ tremote' = <<>>
            /\ tout' = [kind |-> "raised",
                        value |-> "Please provide a score between 0 and 100."]
       ELSE /\ tremote' = <<[endpoint |-> "track_score", args |-> <<request_id, s>>, outcome |-> o]>>
            /\ tout' = AfterRemote(o)

Score ==
    /\ \E request_id \in RequestIds, s \in ScoreInputs, o \in RemoteOutcomes :
           score(request_id, s, o)
    /\ UNCHANGED <<configVars, callVars>>

(* ----------------------------- track.metadata ------------------------- *)
MetaAtoms == {[t |-> "str", v |-> "a"], [t |-> "str", v |-> "b"],
              [t |-> "int", v |-> "1"], None}

RECURSIVE SeqsUpTo(_, _)
SeqsUpTo(S, len) ==
    IF len = 0 THEN {<<>>}
    ELSE LET shorter == SeqsUpTo(S, len - 1)
         IN shorter \cup {Append(q, x) : q \in {r \in shorter : Len(r) = len - 1}, x \in S}

DistinctKeys(items) ==
    \A i, j \in 1..Len(items) : i # j => items[i][1] # items[j][1]

MetadataInputs ==
    {[t |-> ty, items |-> its] :
        ty \in {"dict", "OrderedDict"},
        its \in {q \in SeqsUpTo(MetaAtoms \X MetaAtoms, MaxItems) : DistinctKeys(q)}}
    \cup {[t |-> ty, items |-> <<>>] : ty \in {"NoneType", "str", "list"}}

\* the loop of metadata(): TRUE iff some pair, in iteration order, has a
\* non-str key or a non-str value
RECURSIVE HasBadPair(_)
RECURSIVE HasBadKey(_)
HasBadKey(items) ==
    IF items = <<>> THEN FALSE
    ELSE IF ~IsInstanceStr(Head(items)[1]) THEN TRUE
    ELSE HasBadKey(Tail(items))

HasBadPair(items) ==
    IF items = <<>> THEN FALSE
    ELSE IF ~IsInstanceStr(Head(items)[1]) \/ ~IsInstanceStr(Head(items)[2]) THEN TRUE
    ELSE HasBadPair(Tail(items))

metadata(request_id, md, o) ==
    /\ tcall.op = "none"
    /\ tcall' = [op |-> "metadata", args |-> <<request_id, md>>]
    /\ IF ~IsInstanceDict(md)
       THEN /\ tremote' = <<>>
            /\ tout' = [kind |-> "raised",
                        value |-> "Please provide a dictionary of metadata."]
       ELSE IF HasBadPair(md.items)
       THEN /\ tremote' = <<>>
            /\ tout' = [kind |-> "raised",
                        value |-> "Please provide a dictionary of metadata with key value pair of strings."]
       ELSE /\ tremote' = <<[endpoint |-> "track_metadata", args |-> <<request_id, md>>, outcome |-> o]>>
            /\ tout' = AfterRemote(o)

Metadata ==
    /\ \E request_id \in RequestIds, md \in MetadataInputs, o \in RemoteOutcomes :
           metadata(request_id, md, o)
    /\ UNCHANGED <<configVars, callVars>>

(* ------------------------------ track.prompt -------------------------- *)
PromptArgValues == {[t |-> "str", v |-> "r1"], [t |-> "int", v |-> "7"],
                    [t |-> "list", v |-> "[]"], None}

prompt(request_id, prompt_template_id, version, o) ==
    /\ tcall.op = "none"
    /\ tcall' = [op |-> "prompt", args |-> <<request_id, prompt_template_id, version>>]
    /\ tremote' = <<[endpoint |-> "track_prompt",
                     args |-> <<request_id, prompt_template_id, version>>,
                     outcome |-> o]>>
    /\ tout' = AfterRemote(o)

Prompt ==
    /\ \E request_id \in PromptArgValues, prompt_template_id \in PromptArgValues,
          version \in PromptArgValues, o \in RemoteOutcomes :
           prompt(request_id, prompt_template_id, version, o)
    /\ UNCHANGED <<configVars, callVars>>

(* --------------------------- prompts.publish_prompt ------------------- *)
PromptNames == {"x", "y"}
TagLists == {<<>>, <<"t1">>, <<"t1", "t2">>}
\* a document is a set of <<field, value>> pairs
Documents == {{<<"template", "T1">>},
              {<<"_type", "prompt">>, <<"template", "T1">>},
              {<<"input_variables", "v">>, <<"template", "T2">>}}
TemplateInputs ==
    [t : {"dict", "OrderedDict", "PromptTemplate"}, body : Documents]
    \cup [t : {"int", "NoneType"}, body : {{}}]

\* PromptTemplate.dict(): the fields of the object plus its "_type" marker
PromptTemplateAsIs(pt) == pt

PromptTemplateDict(pt) ==
    [t |-> "dict",
     body |-> {p \in pt.body : p[1] # "_type"} \cup {<<"_type", "prompt">>}]

publish_prompt(prompt_name, tags, prompt_template, o) ==
    /\ tcall.op = "none"
    /\ tcall' = [op |-> "publish_prompt", args |-> <<prompt_name, tags, prompt_template>>]
    /\ IF TypeIsDict(prompt_template)
       THEN /\ tremote' = <<[endpoint |-> "publish_prompt",
                             args |-> <<prompt_name, prompt_template, tags>>,
                             outcome |-> o]>>
            /\ tout' = IF o.kind = "ok" THEN [kind |-> "returned", value |-> "None"]
                       ELSE [kind |-> "raised", value |-> o.ack]
       ELSE IF IsInstancePromptTemplate(prompt_template)
       THEN /\ tremote' = <<[endpoint |-> "publish_prompt",
                             args |-> <<prompt_name, PromptTemplateDict(prompt_template), tags>>,
                             outcome |-> o]>>
            /\ tout' = IF o.kind = "ok" THEN [kind |-> "returned", value |-> "None"]
                       ELSE [kind |-> "raised", value |-> o.ack]
       ELSE /\ tremote' = <<>>
            /\ tout' = [kind |-> "raised",
                        value |-> "Please provide either a JSON prompt template or a langchain prompt template."]

PublishPrompt ==
    /\ \E prompt_name \in PromptNames, tags \in TagLists,
          prompt_template \in TemplateInputs, o \in RemoteOutcomes :
           publish_prompt(prompt_name, tags, prompt_template, o)
    /\ UNCHANGED <<configVars, callVars>>

(* ------------------------- framework adapters ------------------------- *)
\* the two call paths of an adapter: _generate and _agenerate
Calls == {"sync", "async"}
Adapters == {"llm", "chat"}

NotSet == 0 - 1

\* truthiness of a str | None field
Truthy(x) == x.t # "NoneType" /\ x.v # ""

\* the i-th input: a prompt string (completion) or a BaseMessage (chat)
InputAt(a, i) ==
    IF a = "llm" THEN <<"prompt", i>>
    ELSE [type |-> IF i = 1 THEN "system" ELSE "human", content |-> <<"prompt", i>>]

InputsOf(a, k) == [i \in 1..k |-> InputAt(a, i)]

StopValues == {None, [t |-> "list", v |-> "['s']"]}
TagValues == {None, [t |-> "list", v |-> "['t1']"]}
ProjectValues == {None, [t |-> "str", v |-> ""], [t |-> "str", v |-> "proj"]}

\* generation_info as the underlying model leaves it: None, a dict, or
\* some other object; a dict is a set of <<key, value>> pairs
GenerationInfoKinds == {"NoneType", "dict", "str"}
InitialGenerationInfo(kind) ==
    [t |-> kind,
     d |-> IF kind = "dict" THEN {<<"finish_reason", "stop">>} ELSE {}]

UnderlyingErrors == {"RateLimitError", "Timeout"}
ApiOutcomes ==
    [kind : {"ok"}, gi : GenerationInfoKinds, error : {"none"}]
    \cup [kind : {"raise"}, gi : {"NoneType"}, error : UnderlyingErrors]

TokenUsage == [total_tokens |-> 7]
NoResult == [generations |-> <<>>, llm_output |-> [token_usage |-> [total_tokens |-> 0]]]

\* what super()._generate / super()._agenerate returns:
\* completion: one list of n Generations per prompt; chat: n ChatGenerations
UnderlyingResult(a, ins, nn, o) ==
    [generations |->
        IF a = "llm"
        THEN [i \in 1..Len(ins) |->
                [j \in 1..nn |->
                    [text |-> <<"completion", i, j>>,
                     generation_info |-> InitialGenerationInfo(o.gi)]]]
        ELSE [j \in 1..nn |->
                [message |-> [type |-> "ai", content |-> <<"reply", j>>],
                 generation_info |-> InitialGenerationInfo(o.gi)]],
     llm_output |-> [token_usage |-> TokenUsage]]

\* ChatOpenAI._create_message_dicts: messages -> role/content dicts
RoleOf(type) ==
    IF type = "human" THEN "user"
    ELSE IF type = "ai" THEN "assistant"
    ELSE "system"
ConvertMessageToDict(m) == [role |-> RoleOf(m.type), content |-> m.content]
MessageDicts(ms) == [i \in 1..Len(ms) |-> ConvertMessageToDict(ms[i])]
\* ... and the params: the default params, plus stop when stop is not None
ChatParams(nn, st) ==
    [model |-> "gpt-3.5-turbo", n |-> nn,
     stop |-> IF st.t # "NoneType" THEN st ELSE [t |-> "absent", v |-> ""]]
\* OpenAI._identifying_params
IdentifyingParams(nn) ==
    [model |-> "text-davinci-003", n |-> nn, stop |-> [t |-> "absent", v |-> ""]]

\* number of iterations of the reporting loop
ReportCount(a, ins, res) == IF a = "llm" THEN Len(ins) ELSE Len(res.generations)

\* the generation the i-th iteration works on
GenerationAt(a, res, i) ==
    IF a = "llm" THEN res.generations[i][1] ELSE res.generations[i]

FunctionName(a, c) ==
    IF a = "llm"
    THEN (IF c = "sync" THEN "langchain.PromptLayerOpenAI"
          ELSE "langchain.PromptLayerOpenAI.async")
    ELSE (IF c = "sync" THEN "langchain.PromptLayerChatOpenAI"
          ELSE "langchain.PromptLayerChatOpenAI.async")

ProviderByPath(a, c) == IF c = "sync" THEN "langchain" ELSE "langchain.async"

Provider(a, c) == "langchain"

EventArgs(a, ins, i) == IF a = "llm" THEN <<ins[i]>> ELSE MessageDicts(ins)

EventKwargs(a, nn, st) == IF a = "llm" THEN IdentifyingParams(nn) ELSE ChatParams(nn, st)

EventResponse(a, res, i) ==
    IF a = "llm" THEN [text |-> GenerationAt(a, res, i).text]
    ELSE MessageDicts(<<GenerationAt(a, res, i).message>>)

\* metadata={ "project": self.pl_project if self.pl_project else None }
EventMetadata(project) ==
    [t |-> "dict",
     items |-> <<<<[t |-> "str", v |-> "project"],
                   IF Truthy(project) THEN project ELSE None>>>>]

CallEventTimesSwapped(a, c, i, res, st, et) ==
    [function_name |-> FunctionName(a, c),
     provider |-> Provider(a, c),
     args |-> EventArgs(a, inputs, i),
     kwargs |-> EventKwargs(a, n, stop),
     tags |-> pl_tags,
     response |-> EventResponse(a, res, i),
     request_start_time |-> et,
     request_end_time |-> st,
     usage |-> res.llm_output.token_usage,
     metadata |-> EventMetadata(pl_project),
     return_pl_id |-> return_pl_id]

\* the arguments of promptlayer_api_request / promptlayer_api_request_async
CallEvent(a, c, i, res, st, et) ==
    [function_name |-> FunctionName(a, c),
     provider |-> Provider(a, c),
     args |-> EventArgs(a, inputs, i),
     kwargs |-> EventKwargs(a, n, stop),
     tags |-> pl_tags,
     response |-> EventResponse(a, res, i),
     request_start_time |-> st,
     request_end_time |-> et,
     usage |-> res.llm_output.token_usage,
     metadata |-> EventMetadata(pl_project),
     return_pl_id |-> return_pl_id]

\* the Reporter (promptlayer.utils): a request id when return_pl_id is set
\* and the request succeeded, None otherwise; "raise" is an injected fault
ReporterReturns(rpi) == IF rpi THEN {"pl_1"} \cup {"None"} ELSE {"None"}

AnnotatedInfoFresh(gi, rpi, id) ==
    IF ~rpi THEN gi ELSE [t |-> "dict", d |-> {<<"pl_request_id", id>>}]

\* generation.generation_info after the iteration
AnnotatedInfo(gi, rpi, id) ==
    IF ~rpi THEN gi
    ELSE LET base == IF gi.t # "dict" THEN {} ELSE gi.d
         IN [t |-> "dict",
             d |-> {p \in base : p[1] # "pl_request_id"} \cup {<<"pl_request_id", id>>}]

\* generated_responses with the i-th iteration's generation annotated
Annotate(a, res, i, rpi, id) ==
    IF a = "llm"
    THEN [res EXCEPT !.generations[i][1].generation_info = AnnotatedInfo(@, rpi, id)]
    ELSE [res EXCEPT !.generations[i].generation_info = AnnotatedInfo(@, rpi, id)]

\* request_start_time = now(); super()._generate(...) is entered
Start(c) ==
    /\ pc[c] = "idle"
    /\ startTime' = [startTime EXCEPT ![c] = now]
    /\ pc' = [pc EXCEPT ![c] = "underlying"]
    /\ UNCHANGED <<trackVars, configVars, now, endTime, result, produced, idx,
                   events, ids, exc>>

UnderlyingRaiseWrapped(c) ==
    /\ pc[c] = "underlying"
    /\ api.kind = "raise"
    /\ \E d \in 0..MaxElapsed : now' = now + d
    /\ pc' = [pc EXCEPT ![c] = "raised"]
    /\ exc' = [exc EXCEPT ![c] = "Exception"]
    /\ UNCHANGED <<trackVars, configVars, startTime, endTime, result, produced,
                   idx, events, ids>>

\* super()._generate(...) raises: nothing catches it
UnderlyingRaise(c) ==
    /\ pc[c] = "underlying"
    /\ api.kind = "raise"
    /\ \E d \in 0..MaxElapsed : now' = now + d
    /\ pc' = [pc EXCEPT ![c] = "raised"]
    /\ exc' = [exc EXCEPT ![c] = api.error]
    /\ UNCHANGED <<trackVars, configVars, startTime, endTime, result, produced,
                   idx, events, ids>>

\* super()._generate(...) returns; request_end_time = now(); the loop starts
UnderlyingReturn(c) ==
    /\ pc[c] = "underlying"
    /\ api.kind = "ok"
    /\ \E d \in 0..MaxElapsed :
        /\ now' = now + d
        /\ endTime' = [endTime EXCEPT ![c] = now + d]
    /\ result' = [result EXCEPT ![c] = UnderlyingResult(adapter, inputs, n, api)]
    /\ produced' = [produced EXCEPT ![c] = UnderlyingResult(adapter, inputs, n, api)]
    /\ idx' = [idx EXCEPT ![c] = 1]
    /\ pc' = [pc EXCEPT ![c] = "loop"]
    /\ UNCHANGED <<trackVars, configVars, startTime, events, ids, exc>>

\* one iteration of the loop whose Reporter call returns
ReportReturns(c) ==
    /\ pc[c] = "loop"
    /\ idx[c] <= ReportCount(adapter, inputs, result[c])
    /\ events' = [events EXCEPT ![c] =
            Append(@, CallEvent(adapter, c, idx[c], result[c], startTime[c], endTime[c]))]
    /\ \E id \in ReporterReturns(return_pl_id) :
        /\ ids' = [ids EXCEPT ![c] = Append(@, id)]
        /\ result' = [result EXCEPT ![c] = Annotate(adapter, @, idx[c], return_pl_id, id)]
    /\ idx' = [idx EXCEPT ![c] = @ + 1]
    /\ UNCHANGED <<trackVars, configVars, now, pc, startTime, endTime, produced, exc>>

\* one iteration of the loop whose Reporter call raises: nothing catches it
ReportRaises(c) ==
    /\ pc[c] = "loop"
    /\ idx[c] <= ReportCount(adapter, inputs, result[c])
    /\ events' = [events EXCEPT ![c] =
            Append(@, CallEvent(adapter, c, idx[c], result[c], startTime[c], endTime[c]))]
    /\ pc' = [pc EXCEPT ![c] = "raised"]
    /\ exc' = [exc EXCEPT ![c] = "ReporterError"]
    /\ UNCHANGED <<trackVars, configVars, now, startTime, endTime, result, produced,
                   idx, ids>>

\* return generated_responses
Return(c) ==
    /\ pc[c] = "loop"
    /\ idx[c] > ReportCount(adapter, inputs, result[c])
    /\ pc' = [pc EXCEPT ![c] = "returned"]
    /\ UNCHANGED <<trackVars, configVars, now, startTime, endTime, result, produced,
                   idx, events, ids, exc>>

(* --------------------------- specifications --------------------------- *)
TrackIdle ==
    /\ tcall = [op |-> "none", args |-> <<>>]
    /\ tremote = <<>>
    /\ tout = [kind |-> "none", value |-> "none"]

NoCall ==
    /\ now = 0
    /\ startTime = [c \in Calls |-> NotSet]
    /\ endTime = [c \in Calls |-> NotSet]
    /\ result = [c \in Calls |-> NoResult]
    /\ produced = [c \in Calls |-> NoResult]
    /\ idx = [c \in Calls |-> 0]
    /\ events = [c \in Calls |-> <<>>]
    /\ ids = [c \in Calls |-> <<>>]
    /\ exc = [c \in Calls |-> "none"]

\* an adapter instance and the arguments of one generate call, made on
\* either the blocking or the awaited path
Init ==
    /\ TrackIdle
    /\ NoCall
    /\ \E used \in Calls : pc = [c \in Calls |-> IF c = used THEN "idle" ELSE "unused"]
    /\ adapter \in Adapters
    /\ \E k \in 0..MaxPrompts : inputs = InputsOf(adapter, k)
    /\ stop \in StopValues
    /\ pl_tags \in TagValues
    /\ pl_project \in ProjectValues
    /\ return_pl_id \in BOOLEAN
    /\ n \in 1..MaxN
    /\ api \in ApiOutcomes

Next ==
    \/ \E c \in Calls : Start(c)
    \/ \E c \in Calls : UnderlyingRaise(c)
    \/ \E c \in Calls : UnderlyingReturn(c)
    \/ \E c \in Calls : ReportReturns(c)
    \/ \E c \in Calls : ReportRaises(c)
    \/ \E c \in Calls : Return(c)

Spec == Init /\ [][Next]_vars

\* the same instance and arguments used for two generate calls, one on the
\* blocking and one on the awaited path, with the same underlying outcome;
\* stop and pl_tags are set, pl_project is set or None
PairInit ==
    /\ TrackIdle
    /\ NoCall
    /\ pc = [c \in Calls |-> "idle"]
    /\ adapter \in Adapters
    /\ \E k \in 0..MaxPrompts : inputs = InputsOf(adapter, k)
    /\ stop \in {v \in StopValues : v # None}
    /\ pl_tags \in {v \in TagValues : v # None}
    /\ pl_project \in {v \in ProjectValues : v.v # ""}
    /\ return_pl_id \in BOOLEAN
    /\ n \in 1..MaxN
    /\ api \in {o \in ApiOutcomes : o.gi = "NoneType"}

PairSpec == PairInit /\ [][Next]_vars

\* the tracking and template helpers, with no adapter call in progress
TrackInit ==
    /\ TrackIdle
    /\ NoCall
    /\ pc = [c \in Calls |-> "unused"]
    /\ adapter = "llm"
    /\ inputs = <<>>
    /\ stop = None
    /\ pl_tags = None
    /\ pl_project = None
    /\ return_pl_id = FALSE
    /\ n = 1
    /\ api = [kind |-> "ok", gi |-> "NoneType", error |-> "none"]

TrackNext ==
    \/ Score
    \/ Metadata
    \/ Prompt
    \/ PublishPrompt

TrackSpec == TrackInit /\ [][TrackNext]_vars

(* ------------------------------ properties ---------------------------- *)
\* what a result carries apart from the generation_info side channel
GenerationPayloads(a, res) ==
    IF a = "llm"
    THEN [i \in 1..Len(res.generations) |->
            [j \in 1..Len(res.generations[i]) |-> res.generations[i][j].text]]
    ELSE [j \in 1..Len(res.generations) |-> res.generations[j].message]

UnderlyingReturned(c) == pc[c] \in {"loop", "returned"} \/ exc[c] = "ReporterError"

\* C1: whatever the Reporter does (returns an id, returns None, raises), a
\* generate call whose underlying call returned raises nothing to the
\* caller and returns the result the underlying call produced.
C1_ReporterNeverBreaksCall ==
    \A c \in Calls :
        UnderlyingReturned(c) =>
            /\ pc[c] # "raised"
            /\ pc[c] = "returned" =>
                   GenerationPayloads(adapter, result[c])
                       = GenerationPayloads(adapter, produced[c])

\* C2: when the underlying generate call raises, the caller gets that same
\* exception and no report is ever dispatched for the call.
C2_UnderlyingErrorPropagates ==
    \A c \in Calls :
        (api.kind = "raise" /\ pc[c] \notin {"unused", "idle", "underlying"}) =>
            /\ pc[c] = "raised"
            /\ exc[c] = api.error
            /\ events[c] = <<>>
            /\ ids[c] = <<>>

C2_Witness ==
    \E c \in Calls : pc[c] = "raised" /\ exc[c] = "Timeout" /\ events[c] = <<>>

\* the types whose values are integers (bool is a subtype of int)
IntegerTypes == {"int", "bool"}

\* C3: score() makes the remote track-score call exactly when the score is
\* an integer between 0 and 100 inclusive; otherwise it raises without any
\* remote call; on success it returns the remote acknowledgement unchanged.
C3_ScoreRemoteIffInRange ==
    tcall.op = "score" =>
        LET s == tcall.args[2]
            accepted == s.t \in IntegerTypes /\ 0 <= s.v /\ s.v <= 100
        IN /\ (tremote # <<>>) <=> accepted
           /\ tremote = <<>> => tout.kind = "raised"
           /\ tremote # <<>> =>
                /\ Len(tremote) = 1
                /\ tremote[1].endpoint = "track_score"
                /\ tremote[1].args = tcall.args
                /\ tremote[1].outcome.kind = "ok" =>
                       tout = [kind |-> "returned", value |-> tremote[1].outcome.ack]

C3_Witness ==
    /\ tcall.op = "score"
    /\ tcall.args[2] = [t |-> "int", v |-> 0]
    /\ Len(tremote) = 1
    /\ tout = [kind |-> "returned", value |-> "ack2"]

AllStringPairs(items) ==
    \A i \in 1..Len(items) : items[i][1].t = "str" /\ items[i][2].t = "str"

\* C4: metadata() makes the remote track-metadata call exactly when the
\* metadata is a mapping all of whose keys and values are strings (the empty
\* mapping included); otherwise it raises before any remote call.
C4_MetadataRemoteIffStringMap ==
    tcall.op = "metadata" =>
        LET md == tcall.args[2]
            accepted == md.t \in {"dict", "OrderedDict"} /\ AllStringPairs(md.items)
        IN /\ (tremote # <<>>) <=> accepted
           /\ tremote = <<>> => tout.kind = "raised"
           /\ tremote # <<>> =>
                /\ Len(tremote) = 1
                /\ tremote[1].endpoint = "track_metadata"
                /\ tremote[1].args = tcall.args

C4_Witness ==
    /\ tcall.op = "metadata"
    /\ tcall.args[2] = [t |-> "dict", items |-> <<>>]
    /\ Len(tremote) = 1
    /\ tout.kind = "returned"

\* C5: publish_prompt() issues exactly one remote publish call for a plain
\* dict (passed as is) or a PromptTemplate (passed in its dict form), with
\* name and tags unchanged; for anything else it raises with no remote call.
C5_PublishOnlyDictOrTemplate ==
    tcall.op = "publish_prompt" =>
        LET name == tcall.args[1]
            tags == tcall.args[2]
            pt == tcall.args[3]
        IN IF pt.t = "dict"
           THEN /\ Len(tremote) = 1
                /\ tremote[1].args = <<name, pt, tags>>
           ELSE IF pt.t = "PromptTemplate"
           THEN /\ Len(tremote) = 1
                /\ tremote[1].args[1] = name
                /\ tremote[1].args[3] = tags
                /\ tremote[1].args[2].t = "dict"
                /\ <<"_type", "prompt">> \in tremote[1].args[2].body
                /\ \A f \in pt.body : f[1] # "_type" => f \in tremote[1].args[2].body
           ELSE /\ tremote = <<>>
                /\ tout.kind = "raised"

C5_Witness ==
    /\ tcall.op = "publish_prompt"
    /\ tcall.args[3].t = "PromptTemplate"
    /\ tcall.args[2] = <<"t1", "t2">>
    /\ Len(tremote) = 1
    /\ tout.kind = "returned"

\* the argument shapes of track.prompt: ids are strings or integers, the
\* version is an integer or omitted
ValidPromptShape(args) ==
    /\ args[1].t \in {"str", "int"}
    /\ args[2].t \in {"str", "int"}
    /\ args[3].t \in {"int", "NoneType"}

\* C6: prompt() validates the shape of its arguments locally: for arguments
\* of the wrong type it raises before any remote call is made.
C6_PromptValidatesLocally ==
    (tcall.op = "prompt" /\ ~ValidPromptShape(tcall.args)) =>
        /\ tremote = <<>>
        /\ tout.kind = "raised"

Min(x, y) == IF x <= y THEN x ELSE y

\* the fields of a CallEvent other than its name and its two timestamps
PayloadFields(e) ==
    [provider |-> e.provider, args |-> e.args, kwargs |-> e.kwargs,
     tags |-> e.tags, response |-> e.response, usage |-> e.usage,
     metadata |-> e.metadata, return_pl_id |-> e.return_pl_id]

PathsAligned ==
    /\ \A c \in Calls : pc[c] = "returned" => Len(events[c]) = idx[c] - 1
    /\ (\A c \in Calls : pc[c] = "returned") => Len(events["sync"]) = Len(events["async"])

AsyncNameOf(name) ==
    IF name = "langchain.PromptLayerOpenAI" THEN "langchain.PromptLayerOpenAI.async"
    ELSE IF name = "langchain.PromptLayerChatOpenAI"
    THEN "langchain.PromptLayerChatOpenAI.async"
    ELSE "?"

C8_EventMetadataStringsOnly ==
    \A c \in Calls : \A i \in 1..Len(events[c]) :
        LET m == events[c][i].metadata
        IN m.t = "NoneType" \/ (m.t = "dict" /\ AllStringPairs(m.items))

\* the generation objects of a result, as <<position, generation>>; the
\* position is the index of the report made for the generation's prompt
\* (completion) or for the generation itself (chat)
AllGenerations(a, res) ==
    IF a = "llm"
    THEN {<<i, res.generations[i][j]>> :
            i \in 1..Len(res.generations), j \in 1..n}
    ELSE {<<j, res.generations[j]>> : j \in 1..Len(res.generations)}

ReportedGenerations(a, res) ==
    IF a = "llm"
    THEN {<<i, res.generations[i][1]>> : i \in 1..Len(res.generations)}
    ELSE {<<j, res.generations[j]>> : j \in 1..Len(res.generations)}

CarriesRequestId(g, id) ==
    /\ g.generation_info.t = "dict"
    /\ <<"pl_request_id", id>> \in g.generation_info.d
    /\ \A p \in g.generation_info.d : p[1] = "pl_request_id" => p[2] = id

KeepsEarlierKeys(c, a, pos) ==
    LET before == GenerationAt(a, produced[c], pos).generation_info
        after == GenerationAt(a, result[c], pos).generation_info
    IN before.t = "dict" =>
           \A p \in before.d : p[1] # "pl_request_id" => p \in after.d

\* C9 (as stated): with return_pl_id set, after generate returns every
\* Generation of the result has a dict generation_info whose pl_request_id
\* is the id the Reporter returned; with return_pl_id unset no
\* generation_info is touched.
C9_EveryGenerationAnnotated ==
    \A c \in Calls :
        /\ (pc[c] = "returned" /\ return_pl_id) =>
               \A pg \in AllGenerations(adapter, result[c]) :
                   CarriesRequestId(pg[2], ids[c][pg[1]])
        /\ ~return_pl_id => result[c] = produced[c]

\* C9 (amended): with return_pl_id set, after generate returns every
\* Generation a report was made for (completion: the first Generation of
\* each prompt; chat: every generation) has a dict generation_info whose
\* pl_request_id is the id the Reporter returned for that report (None if
\* none), earlier keys of a dict generation_info being kept, and every
\* other Generation is as the underlying call returned it; with
\* return_pl_id unset no generation_info is touched.
C9_ReportedGenerationsAnnotated ==
    \A c \in Calls :
        /\ (pc[c] = "returned" /\ return_pl_id) =>
               /\ \A pg \in ReportedGenerations(adapter, result[c]) :
                      /\ CarriesRequestId(pg[2], ids[c][pg[1]])
                      /\ KeepsEarlierKeys(c, adapter, pg[1])
               /\ \A pg \in AllGenerations(adapter, result[c])
                              \ ReportedGenerations(adapter, result[c]) :
                      pg \in AllGenerations(adapter, produced[c])
        /\ ~return_pl_id => result[c] = produced[c]

C9_Witness ==
    \E c \in Calls :
        /\ pc[c] = "returned"
        /\ return_pl_id
        /\ adapter = "llm"
        /\ n = 2
        /\ ids[c] = <<"pl_1", "None">>
        /\ api.gi = "dict"

C10_State ==
    \A c \in Calls :
        /\ pc[c] \in {"unused", "idle"} => startTime[c] = NotSet
        /\ pc[c] = "underlying" =>
               startTime[c] # NotSet /\ endTime[c] = NotSet /\ events[c] = <<>>
        /\ events[c] # <<>> => (endTime[c] # NotSet /\ UnderlyingReturned(c))
        /\ \A i \in 1..Len(events[c]) :
               /\ events[c][i].request_start_time = startTime[c]
               /\ events[c][i].request_end_time = endTime[c]
               /\ events[c][i].request_end_time >= events[c][i].request_start_time
               /\ IF adapter = "llm"
                  THEN events[c][i].args = <<inputs[i]>>
                  ELSE events[c][i].response
                           = <<ConvertMessageToDict(produced[c].generations[i].message)>>
        /\ pc[c] = "returned" =>
               Len(events[c]) = (IF adapter = "llm" THEN Len(inputs)
                                 ELSE Len(produced[c].generations))

C10_Step ==
    \A c \in Calls :
        /\ \/ events'[c] = events[c]
           \/ /\ Len(events'[c]) = Len(events[c]) + 1
              /\ SubSeq(events'[c], 1, Len(events[c])) = events[c]
        /\ (pc[c] # "loop" \/ pc'[c] = "returned") => events'[c] = events[c]

====
